---------------------------- MODULE Spec2Model ----------------------------
(***************************************************************************)
(* The data-preparation notebook 01_data_preparation.ipynb as a state      *)
(* machine.  The notebook is a straight line of cells; every cell is one    *)
(* action and pc names the next cell to run.  The state is the notebook's   *)
(* global namespace: book_df, doc_toc, recipes_toc, recipes_df, merged,     *)
(* recipes_combined, docs, plus the PDF file the first cells read and the   *)
(* vector store directory the last cell writes.                            *)
(*                                                                         *)
(* A string is a sequence of one-character strings.  A DataFrame is the     *)
(* sequence of its rows (records), in row order.                            *)
(*                                                                         *)
(* The literals the notebook hard-codes for one book (pages 23..449, chunks *)
(* of 1000 characters overlapping by 100) are far beyond what can be        *)
(* enumerated.  The model reads the page range from the variables           *)
(* content_start_page and content_end_page, which the initial state draws   *)
(* from the pages of the PDF, and the chunk parameters from the splitter    *)
(* object, which the split cell constructs with parameters drawn from small *)
(* ranges.                                                                  *)
(***************************************************************************)
EXTENDS Naturals, Sequences, FiniteSets, TLC

VARIABLES pdf, content_start_page, content_end_page, pc, book_df, doc_toc,
          recipes_toc, recipes_df, merged, recipes_combined, splitter, row,
          docs, error,
          store, ids, batches, batch, uuid_count, run

\* the state of the index cell and of the directory it persists into:
\* store is the collection on disk, ids the ids drawn for docs, batches the
\* batches docs was cut into, batch how many of them were added,
\* uuid_count how many ids were ever drawn, run the number of this run
indexVars == <<store, ids, batches, batch, uuid_count, run>>

vars == <<pdf, content_start_page, content_end_page, pc, book_df, doc_toc,
          recipes_toc, recipes_df, merged, recipes_combined, splitter, row,
          docs, error, indexVars>>

----------------------------------------------------------------------------
(* Bounds of the model. *)

\* pages of the PDF in the pipeline specification
NumPages == 3
\* outline entries of the PDF in the pipeline specification
MaxToc == 3
\* largest chunk_size the splitter is constructed with
MaxChunk == 3
\* longest page text in the splitter specification
MaxTextLen == 6

----------------------------------------------------------------------------
(* Characters and strings. *)

SP == " "
NL == "\n"

\* the characters Python's str.strip() removes, among those of the model
Whitespace == {SP, NL}

\* the level the notebook takes to mark recipes
recipe_level == 2

\* pandas' missing value: the title of a page no outline entry precedes
NaN == "NaN"

RECURSIVE Join(_, _)
\* sep.join(parts)
Join(sep, parts) ==
    IF parts = <<>> THEN <<>>
    ELSE IF Len(parts) = 1 THEN parts[1]
    ELSE parts[1] \o sep \o Join(sep, Tail(parts))

RECURSIVE LStrip(_)
LStrip(s) ==
    IF s # <<>> /\ Head(s) \in Whitespace THEN LStrip(Tail(s)) ELSE s

RECURSIVE RStrip(_)
RStrip(s) ==
    IF s # <<>> /\ s[Len(s)] \in Whitespace
    THEN RStrip(SubSeq(s, 1, Len(s) - 1)) ELSE s

\* str.strip()
Strip(s) == RStrip(LStrip(s))

----------------------------------------------------------------------------
(* pandas operations of the merge cell. *)

\* a range filter that leaves out its right end
BetweenExclusive(x, left, right) == left <= x /\ x < right

\* Series.between(left, right): inclusive at both ends
Between(x, left, right) == left <= x /\ x <= right

\* a frame whose columns are int64 whatever rows it is built from
FrameDtypeInt64(rows) == "int64"

\* the dtype of the level and page_number columns of
\* pd.DataFrame(rows, columns=[...]): object when rows is an empty list,
\* int64 when it holds rows of integers and strings
FrameDtype(rows) == IF rows = <<>> THEN "object" ELSE "int64"

IsSortedByPage(df) ==
    \A i \in 1..(Len(df) - 1) : df[i].page_number <= df[i + 1].page_number

\* DataFrame.sort_values('page_number') with the default kind='quicksort',
\* which is not stable: every ordering of the rows that is ascending in the
\* key is a possible result (rows with equal keys in any order).
SortValues(df) ==
    LET n == Len(df)
        Perm == {p \in [1..n -> 1..n] : \A i, j \in 1..n : i # j => p[i] # p[j]}
    IN  {s \in {[i \in 1..n |-> df[p[i]]] : p \in Perm} : IsSortedByPage(s)}

\* an as-of match that stops at the first row whose key is <= key
AsofFirst(right, key) ==
    LET le == {j \in 1..Len(right) : right[j].page_number <= key}
    IN  IF le = {} THEN 0
        ELSE CHOOSE j \in le : \A k \in le : j <= k

\* position of the row of right that a backward as-of match picks for key:
\* the last row whose page_number is <= key, 0 when there is none
AsofBackward(right, key) ==
    LET le == {j \in 1..Len(right) : right[j].page_number <= key}
    IN  IF le = {} THEN 0
        ELSE CHOOSE j \in le : \A k \in le : k <= j

\* pd.merge_asof(left, right, on='page_number', direction='backward'):
\* one row per row of left, in left's order, carrying the matched title
MergeAsof(left, right) ==
    [i \in 1..Len(left) |->
        LET j == AsofBackward(right, left[i].page_number)
        IN  [page_number |-> left[i].page_number,
             text        |-> left[i].text,
             title       |-> IF j = 0 THEN NaN ELSE right[j].title]]

RECURSIVE FirstSeenRuns(_, _)
\* group keys that start a new group whenever the title changes from one
\* row to the next (runs of consecutive rows, not titles)
FirstSeenRuns(df, seen) ==
    IF df = <<>> THEN <<>>
    ELSE LET t == Head(df).title
         IN  IF t = NaN \/ t \in seen THEN FirstSeenRuns(Tail(df), seen)
             ELSE <<t>> \o FirstSeenRuns(Tail(df), {t})

RECURSIVE FirstSeenKeepNaN(_, _)
\* group keys that keep the missing title as a group (dropna=False)
FirstSeenKeepNaN(df, seen) ==
    IF df = <<>> THEN <<>>
    ELSE LET t == Head(df).title
         IN  IF t \in seen THEN FirstSeenKeepNaN(Tail(df), seen)
             ELSE <<t>> \o FirstSeenKeepNaN(Tail(df), seen \cup {t})

\* group keys in alphabetical order (sort=True)
FirstSeenSorted(df, seen) ==
    SelectSeq(<<"A", "B">>,
              LAMBDA t : t \notin seen /\ \E i \in DOMAIN df : df[i].title = t)

RECURSIVE FirstSeen(_, _)
\* the group keys of groupby('title', sort=False): the titles in order of
\* first appearance, a missing title (NaN) forming no group
FirstSeen(df, seen) ==
    IF df = <<>> THEN <<>>
    ELSE LET t == Head(df).title
         IN  IF t = NaN \/ t \in seen THEN FirstSeen(Tail(df), seen)
             ELSE <<t>> \o FirstSeen(Tail(df), seen \cup {t})

\* the text column of the rows of one group, in row order
GroupTexts(df, t) ==
    LET rows == SelectSeq(df, LAMBDA r : r.title = t)
    IN  [i \in 1..Len(rows) |-> rows[i].text]

\* merged.groupby('title', sort=False)['text'].apply(' '.join)
\*       .reset_index().rename(...)
GroupJoin(df) ==
    LET keys == FirstSeen(df, {})
    IN  [i \in 1..Len(keys) |->
            [recipe      |-> keys[i],
             description |-> Join(<<SP>>, GroupTexts(df, keys[i]))]]

----------------------------------------------------------------------------
(* RecursiveCharacterTextSplitter(chunk_size, chunk_overlap) of              *)
(* langchain_text_splitters, with the defaults the notebook leaves in place: *)
(* separators ["\n\n", "\n", " ", ""], keep_separator=True,                  *)
(* is_separator_regex=False, strip_whitespace=True, length_function=len.     *)

\* the value of the name splitter before the split cell binds it
NoSplitter == [chunk_size |-> 0, chunk_overlap |-> 0]

\* the default separators, coarsest first; the empty one cuts at every
\* character
Separators == << <<NL, NL>>, <<NL>>, <<SP>>, <<>> >>

OccursAt(text, sep, j) ==
    /\ j + Len(sep) - 1 <= Len(text)
    /\ SubSeq(text, j, j + Len(sep) - 1) = sep

\* re.search(re.escape(sep), text)
Contains(text, sep) == \E j \in 1..Len(text) : OccursAt(text, sep, j)

\* start of the first occurrence of sep in text at or after i, 0 if none
FindFrom(text, sep, i) ==
    LET at == {j \in i..Len(text) : OccursAt(text, sep, j)}
    IN  IF at = {} THEN 0 ELSE CHOOSE j \in at : \A k \in at : j <= k

RECURSIVE RegexPieces(_, _, _, _)
\* re.split("(sep)", text) with every separator glued to the front of the
\* piece that follows it: the piece that starts at start, then the rest
RegexPieces(text, sep, start, i) ==
    LET j == FindFrom(text, sep, i)
    IN  IF j = 0 THEN <<SubSeq(text, start, Len(text))>>
        ELSE <<SubSeq(text, start, j - 1)>>
             \o RegexPieces(text, sep, j, j + Len(sep))

\* _split_text_with_regex(text, separator, keep_separator=True)
SplitTextWithRegex(text, sep) ==
    IF sep # <<>>
    THEN SelectSeq(RegexPieces(text, sep, 1, 1), LAMBDA x : x # <<>>)
    ELSE [i \in 1..Len(text) |-> <<text[i]>>]

\* a join that returns the stripped text even when nothing is left of it
JoinDocsKeepEmpty(current_doc, separator) ==
    <<Strip(Join(separator, current_doc))>>

\* a join that does not strip the text (strip_whitespace=False)
JoinDocsNoStrip(current_doc, separator) ==
    LET text == Join(separator, current_doc)
    IN  IF text = <<>> THEN <<>> ELSE <<text>>

\* TextSplitter._join_docs: the joined, stripped text as a list of one
\* chunk, or of none when nothing but whitespace is left (None)
JoinDocs(current_doc, separator) ==
    LET text == Strip(Join(separator, current_doc))
    IN  IF text = <<>> THEN <<>> ELSE <<text>>

RECURSIVE PopLoopIgnoreOverlap(_, _, _, _, _, _)
\* a loop that drops splits only until the next one fits, whatever
\* chunk_overlap is
PopLoopIgnoreOverlap(current_doc, total, len, sepLen, cs, co) ==
    IF /\ total + len + (IF Len(current_doc) > 0 THEN sepLen ELSE 0) > cs
       /\ total > 0
    THEN PopLoopIgnoreOverlap(Tail(current_doc),
                 total - (Len(current_doc[1])
                          + (IF Len(current_doc) > 1 THEN sepLen ELSE 0)),
                 len, sepLen, cs, co)
    ELSE <<current_doc, total>>

RECURSIVE PopLoop(_, _, _, _, _, _)
\* the while loop of _merge_splits that drops splits from the front of
\* current_doc: <<current_doc, total>> when it ends
PopLoop(current_doc, total, len, sepLen, cs, co) ==
    IF \/ total > co
       \/ /\ total + len + (IF Len(current_doc) > 0 THEN sepLen ELSE 0) > cs
          /\ total > 0
    THEN PopLoop(Tail(current_doc),
                 total - (Len(current_doc[1])
                          + (IF Len(current_doc) > 1 THEN sepLen ELSE 0)),
                 len, sepLen, cs, co)
    ELSE <<current_doc, total>>

RECURSIVE MergeLoop(_, _, _, _, _, _, _, _)
\* the for loop of _merge_splits from split k on, and the final join
MergeLoop(splits, k, out, current_doc, total, separator, cs, co) ==
    IF k > Len(splits) THEN out \o JoinDocs(current_doc, separator)
    ELSE
      LET d      == splits[k]
          len    == Len(d)
          sepLen == Len(separator)
          full   == total + len
                    + (IF Len(current_doc) > 0 THEN sepLen ELSE 0) > cs
          flush  == full /\ Len(current_doc) > 0
          out2   == IF flush THEN out \o JoinDocs(current_doc, separator)
                    ELSE out
          kept   == IF flush
                    THEN PopLoop(current_doc, total, len, sepLen, cs, co)
                    ELSE <<current_doc, total>>
          doc2   == Append(kept[1], d)
          total2 == kept[2] + len + (IF Len(doc2) > 1 THEN sepLen ELSE 0)
      IN  MergeLoop(splits, k + 1, out2, doc2, total2, separator, cs, co)

\* TextSplitter._merge_splits(splits, separator)
MergeSplits(splits, separator, cs, co) ==
    MergeLoop(splits, 1, <<>>, <<>>, 0, separator, cs, co)

\* the finest separator of the list: the last one that occurs in the text
PickSeparatorFinest(text, separators) ==
    LET ok == {i \in 1..Len(separators) :
                  separators[i] = <<>> \/ Contains(text, separators[i])}
    IN  IF ok = {} THEN 0 ELSE CHOOSE i \in ok : \A k \in ok : k <= i

\* the separator _split_text picks: the first of separators that is empty
\* or occurs in text (0: none does, and the last one is used)
PickSeparator(text, separators) ==
    LET ok == {i \in 1..Len(separators) :
                  separators[i] = <<>> \/ Contains(text, separators[i])}
    IN  IF ok = {} THEN 0 ELSE CHOOSE i \in ok : \A k \in ok : i <= k

RECURSIVE SplitTextRec(_, _, _, _)
RECURSIVE SplitLoop(_, _, _, _, _, _, _)

\* the for loop of _split_text over the splits from k on: pieces shorter
\* than chunk_size gather in good and are merged; a piece that is not
\* shorter is split again with the finer separators, or kept as it is when
\* none is left
SplitLoop(splits, k, good, final, new_separators, cs, co) ==
    IF k > Len(splits)
    THEN IF good # <<>> THEN final \o MergeSplits(good, <<>>, cs, co)
         ELSE final
    ELSE
      LET s == splits[k]
      IN  IF Len(s) < cs
          THEN SplitLoop(splits, k + 1, Append(good, s), final,
                         new_separators, cs, co)
          ELSE
            LET final2 == IF good # <<>>
                          THEN final \o MergeSplits(good, <<>>, cs, co)
                          ELSE final
                final3 == IF new_separators = <<>> THEN Append(final2, s)
                          ELSE final2
                               \o SplitTextRec(s, new_separators, cs, co)
            IN  SplitLoop(splits, k + 1, <<>>, final3, new_separators, cs, co)

\* RecursiveCharacterTextSplitter._split_text(text, separators)
SplitTextRec(text, separators, cs, co) ==
    LET i == PickSeparator(text, separators)
        separator == IF i = 0 THEN separators[Len(separators)]
                     ELSE separators[i]
        new_separators ==
            IF i = 0 \/ separators[i] = <<>> THEN <<>>
            ELSE SubSeq(separators, i + 1, Len(separators))
        splits == SplitTextWithRegex(text, separator)
    IN  SplitLoop(splits, 1, <<>>, <<>>, new_separators, cs, co)

\* splitter.split_text(text)
SplitText(sp, text) ==
    SplitTextRec(text, Separators, sp.chunk_size, sp.chunk_overlap)

\* Documents of one row in which each chunk is put before the earlier ones
RowDocumentsReversed(sp, r) ==
    LET chunks == SplitText(sp, r.description)
        n == Len(chunks)
    IN  [i \in 1..n |->
            [page_content |-> chunks[n + 1 - i],
             metadata |-> [recipe |-> r.recipe]]]

\* the Documents the loop body appends for one row of recipes_combined
RowDocuments(sp, r) ==
    LET chunks == SplitText(sp, r.description)
    IN  [i \in 1..Len(chunks) |->
            [page_content |-> chunks[i], metadata |-> [recipe |-> r.recipe]]]

----------------------------------------------------------------------------
(* Inputs. *)

Titles == {"A", "B"}
PageTexts == {<<>>, <<"a">>, <<"b">>}

\* an outline entry as fitz's get_toc() returns it: [level, title, page].
\* A recipe entry has any title and page; one section entry (level 1)
\* stands for all of them, since the filter on level drops it whatever its
\* title and page.
TocEntries ==
    [level : {recipe_level}, title : Titles, page_number : 1..NumPages]
    \cup [level : {1}, title : {"S"}, page_number : {1}]

SeqsUpTo(S, n) == UNION {[1..k -> S] : k \in 0..n}

\* the PDFs of the pipeline specification: the text of every page, the
\* outline, and the pages on which extract_text() raises (none here)
Pdfs ==
    [pages : [1..NumPages -> PageTexts], toc : SeqsUpTo(TocEntries, MaxToc),
     unreadable : {{}}]

\* the names the cells bind are unbound (empty) before the first cell, and
\* the directory of the vector store does not exist yet
Unbound ==
    /\ pc = "extract_pages"
    /\ book_df = <<>>
    /\ doc_toc = [dtype |-> "object", rows |-> <<>>]
    /\ recipes_toc = [dtype |-> "object", rows |-> <<>>]
    /\ recipes_df = <<>>
    /\ merged = <<>>
    /\ recipes_combined = <<>>
    /\ splitter = NoSplitter
    /\ row = 0
    /\ docs = <<>>
    /\ error = "none"
    /\ store = {}
    /\ ids = <<>>
    /\ batches = <<>>
    /\ batch = 0
    /\ uuid_count = 0
    /\ run = 1

Init ==
    /\ pdf \in Pdfs
    /\ content_start_page \in 1..NumPages
    /\ content_end_page \in content_start_page..NumPages
    /\ Unbound

\* the characters of the page texts in the splitter specification
Alphabet == {"a", "b", SP, NL}

\* the PDFs of the splitter specification: one page of any text up to
\* MaxTextLen characters, which the outline gives whole to recipe A
SplitPdfs ==
    [pages : [1..1 -> SeqsUpTo(Alphabet, MaxTextLen)],
     toc   : {<<[level |-> recipe_level, title |-> "A", page_number |-> 1]>>},
     unreadable : {{}}]

InitSplit ==
    /\ pdf \in SplitPdfs
    /\ content_start_page = 1
    /\ content_end_page = 1
    /\ Unbound

----------------------------------------------------------------------------
(* The cells. *)

\* book_pdf / book_df: one row per page of the PDF, numbered from 1, with
\* the text extract_text() returns (the empty string for a page without
\* text).  Nothing catches an exception of extract_text(): it ends the cell
\* before book_pdf['text'] is assigned.
ExtractPages ==
    /\ pc = "extract_pages"
    /\ IF pdf.unreadable # {}
       THEN /\ error' = "ExtractError"
            /\ pc' = "failed"
            /\ UNCHANGED book_df
       ELSE /\ book_df' = [i \in 1..Len(pdf.pages) |->
                              [page_number |-> i, text |-> pdf.pages[i]]]
            /\ pc' = "extract_toc"
            /\ UNCHANGED error
    /\ UNCHANGED indexVars
    /\ UNCHANGED <<pdf, content_start_page, content_end_page, splitter,
                   doc_toc, recipes_toc, recipes_df, merged,
                   recipes_combined, row, docs>>

\* doc_toc = pd.DataFrame(doc.get_toc(), columns=[...]): a frame built from
\* an empty list has object columns, one built from rows of integers and
\* strings has int64 level and page_number columns
ExtractToc ==
    /\ pc = "extract_toc"
    /\ doc_toc' = [dtype |-> FrameDtype(pdf.toc), rows |-> pdf.toc]
    /\ pc' = "filter_toc"
    /\ UNCHANGED indexVars
    /\ UNCHANGED <<pdf, content_start_page, content_end_page, splitter,
                   book_df, recipes_toc, recipes_df, merged,
                   recipes_combined, row, docs, error>>

\* recipes_toc = doc_toc[doc_toc['level'] == 2].reset_index(drop=True)
FilterToc ==
    /\ pc = "filter_toc"
    /\ recipes_toc' =
          [dtype |-> doc_toc.dtype,
           rows  |-> SelectSeq(doc_toc.rows, LAMBDA r : r.level = recipe_level)]
    /\ pc' = "filter_pages"
    /\ UNCHANGED indexVars
    /\ UNCHANGED <<pdf, content_start_page, content_end_page, splitter,
                   book_df, doc_toc, recipes_df, merged,
                   recipes_combined, row, docs, error>>

\* recipes_df = book_df[book_df['page_number'].between(23, 449)]
FilterPages ==
    /\ pc = "filter_pages"
    /\ recipes_df' =
          SelectSeq(book_df, LAMBDA r : Between(r.page_number,
                                                content_start_page,
                                                content_end_page))
    /\ pc' = "merge"
    /\ UNCHANGED indexVars
    /\ UNCHANGED <<pdf, content_start_page, content_end_page, splitter,
                   book_df, doc_toc, recipes_toc, merged,
                   recipes_combined, row, docs, error>>

\* The merge cell: sort both frames, merge_asof, groupby and join.
\* merge_asof raises MergeError when the two page_number columns differ in
\* dtype, which is the case when the outline was empty (object against the
\* int64 of the pages); the cell then stops after the two sorts.
MergeCell ==
    /\ pc = "merge"
    /\ \E ldf \in SortValues(recipes_df) :
       \E rdf \in SortValues(recipes_toc.rows) :
          /\ recipes_df' = ldf
          /\ recipes_toc' = [recipes_toc EXCEPT !.rows = rdf]
          /\ IF recipes_toc.dtype # "int64"
             THEN /\ error' = "MergeError"
                  /\ pc' = "failed"
                  /\ UNCHANGED <<merged, recipes_combined>>
             ELSE /\ merged' = MergeAsof(ldf, rdf)
                  /\ recipes_combined' = GroupJoin(MergeAsof(ldf, rdf))
                  /\ pc' = "split"
                  /\ UNCHANGED error
    /\ UNCHANGED indexVars
    /\ UNCHANGED <<pdf, content_start_page, content_end_page, splitter,
                   book_df, doc_toc, row, docs>>

\* docs = []; splitter = RecursiveCharacterTextSplitter(chunk_size=1000,
\* chunk_overlap=100): the constructor accepts any chunk_overlap that does
\* not exceed chunk_size.  The literals of the cell are the same every time
\* the notebook runs: a later run constructs the splitter of the first.
MakeSplitter ==
    /\ pc = "split"
    /\ \E cs \in 1..MaxChunk : \E co \in 0..(cs - 1) :
          /\ splitter # NoSplitter =>
                cs = splitter.chunk_size /\ co = splitter.chunk_overlap
          /\ splitter' = [chunk_size |-> cs, chunk_overlap |-> co]
    /\ docs' = <<>>
    /\ row' = 0
    /\ pc' = "split_rows"
    /\ UNCHANGED indexVars
    /\ UNCHANGED <<pdf, content_start_page, content_end_page, book_df,
                   doc_toc, recipes_toc, recipes_df, merged,
                   recipes_combined, error>>

\* one iteration of "for _, row in recipes_combined.iterrows()"
SplitRow ==
    /\ pc = "split_rows"
    /\ row < Len(recipes_combined)
    /\ row' = row + 1
    /\ docs' = docs \o RowDocuments(splitter, recipes_combined[row + 1])
    /\ UNCHANGED indexVars
    /\ UNCHANGED <<pdf, content_start_page, content_end_page, pc, book_df,
                   doc_toc, recipes_toc, recipes_df, merged,
                   recipes_combined, splitter, error>>

\* the loop ends after the last row
SplitDone ==
    /\ pc = "split_rows"
    /\ row = Len(recipes_combined)
    /\ pc' = "build_index"
    /\ UNCHANGED indexVars
    /\ UNCHANGED <<pdf, content_start_page, content_end_page, book_df,
                   doc_toc, recipes_toc, recipes_df, merged,
                   recipes_combined, splitter, row, docs, error>>

Next ==
    \/ ExtractPages
    \/ ExtractToc
    \/ FilterToc
    \/ FilterPages
    \/ MergeCell
    \/ MakeSplitter
    \/ SplitRow
    \/ SplitDone

Spec == Init /\ [][Next]_vars

\* the same notebook run on the PDFs of the splitter specification
SpecSplit == InitSplit /\ [][Next]_vars

\* the characters of the page texts in the separator specification
SeparatorAlphabet == {"a", ".", SP, NL}

\* the PDFs of the separator specification: one page of any text up to
\* MaxTextLen characters, sentence punctuation included, given to recipe A
SeparatorPdfs ==
    [pages : [1..1 -> SeqsUpTo(SeparatorAlphabet, MaxTextLen)],
     toc   : {<<[level |-> recipe_level, title |-> "A", page_number |-> 1]>>},
     unreadable : {{}}]

InitSeparators ==
    /\ pdf \in SeparatorPdfs
    /\ content_start_page = 1
    /\ content_end_page = 1
    /\ Unbound

\* the same notebook run on the PDFs of the separator specification
SpecSeparators == InitSeparators /\ [][Next]_vars

----------------------------------------------------------------------------
(* The index cell: embeddings = HuggingFaceEmbeddings(...),                *)
(* vectorstore = Chroma.from_documents(documents=docs,                     *)
(* embedding=embeddings, persist_directory="data/recipes_vectorstore").    *)
(* from_documents takes the texts and the metadatas out of docs, opens the *)
(* collection of the directory (creating it when it is not there), draws   *)
(* one uuid4 per text, cuts the lists into batches and calls add_texts on  *)
(* each batch; add_texts embeds the texts of the batch and upserts ids,    *)
(* embeddings, texts and metadatas, aligned by position.                   *)

\* the largest batch the client accepts in one call (max_batch_size)
MaxBatchSize == 2

\* how many times the notebook is run against the same directory
MaxRuns == 2

\* the pages and the outline entries of the PDFs of the index specification
IndexPages == 2
IndexToc == 2

Min(a, b) == IF a < b THEN a ELSE b

\* how many times the character c occurs in text
RECURSIVE Count(_, _)
Count(text, c) ==
    IF text = <<>> THEN 0
    ELSE (IF Head(text) = c THEN 1 ELSE 0) + Count(Tail(text), c)

\* the vector of a text: a function of the text alone, under which
\* different texts can fall together
Embed(text) == <<Count(text, "a"), Len(text)>>

\* embeddings.embed_documents(texts)
EmbedDocuments(texts) == [i \in 1..Len(texts) |-> Embed(texts[i])]

\* create_batches: the positions 1..n whole when they fit one batch, else
\* cut into runs of MaxBatchSize
CreateBatches(n) ==
    IF n > MaxBatchSize
    THEN [k \in 1..((n + MaxBatchSize - 1) \div MaxBatchSize) |->
            [j \in 1..(Min(k * MaxBatchSize, n) - (k - 1) * MaxBatchSize) |->
                (k - 1) * MaxBatchSize + j]]
    ELSE << [j \in 1..n |-> j] >>

\* entries that carry the vector of the text at the mirrored position
BatchEntriesMirrored(b_ids, texts, metadatas, embeddings) ==
    { [id |-> b_ids[i], embedding |-> embeddings[Len(b_ids) + 1 - i],
       document |-> texts[i], metadata |-> metadatas[i]] :
      i \in 1..Len(b_ids) }

\* the entries one upsert call writes: the lists are aligned by position
BatchEntries(b_ids, texts, metadatas, embeddings) ==
    { [id |-> b_ids[i], embedding |-> embeddings[i],
       document |-> texts[i], metadata |-> metadatas[i]] :
      i \in 1..Len(b_ids) }

\* collection.upsert: an entry replaces the one with its id, if any
Upsert(collection, entries) ==
    {e \in collection : \A n \in entries : n.id # e.id} \cup entries

\* the PDFs of the index specification; extract_text() raises on at most
\* one page
IndexTexts == {<<"a">>, <<"b", SP, "a">>}

IndexPdfs ==
    [pages : [1..IndexPages -> IndexTexts],
     toc   : SeqsUpTo([level : {recipe_level}, title : Titles,
                       page_number : 1..IndexPages]
                      \cup [level : {1}, title : {"S"}, page_number : {1}],
                      IndexToc),
     unreadable : {{}} \cup {{i} : i \in 1..IndexPages}]

InitIndex ==
    /\ pdf \in IndexPdfs
    /\ content_start_page = 1
    /\ content_end_page = IndexPages
    /\ Unbound

\* the start of the cell: the embedding model is loaded (which can fail),
\* the collection is opened with what it already holds, the ids are drawn
\* and the batches are made
FromDocuments ==
    /\ pc = "build_index"
    /\ \/ /\ error' = "EmbeddingError"
          /\ pc' = "failed"
          /\ UNCHANGED <<ids, batches, batch, uuid_count>>
       \/ /\ ids' = [i \in 1..Len(docs) |-> uuid_count + i]
          /\ uuid_count' = uuid_count + Len(docs)
          /\ batches' = CreateBatches(Len(docs))
          /\ batch' = 0
          /\ pc' = "add_texts"
          /\ UNCHANGED error
    /\ UNCHANGED <<store, run>>
    /\ UNCHANGED <<pdf, content_start_page, content_end_page, book_df,
                   doc_toc, recipes_toc, recipes_df, merged,
                   recipes_combined, splitter, row, docs>>

\* add_texts on the next batch: embed_documents or upsert can raise, and
\* then nothing of this batch is written and the batches written before
\* stay in the directory
AddTexts ==
    /\ pc = "add_texts"
    /\ batch < Len(batches)
    /\ LET b         == batches[batch + 1]
           b_ids     == [i \in 1..Len(b) |-> ids[b[i]]]
           texts     == [i \in 1..Len(b) |-> docs[b[i]].page_content]
           metadatas == [i \in 1..Len(b) |-> docs[b[i]].metadata]
       IN \/ /\ error' \in {"EmbeddingError", "StoreWriteError"}
             /\ pc' = "failed"
             /\ UNCHANGED <<store, batch>>
          \/ /\ store' = Upsert(store, BatchEntries(b_ids, texts, metadatas,
                                                    EmbedDocuments(texts)))
             /\ batch' = batch + 1
             /\ UNCHANGED <<pc, error>>
    /\ UNCHANGED <<ids, batches, uuid_count, run>>
    /\ UNCHANGED <<pdf, content_start_page, content_end_page, book_df,
                   doc_toc, recipes_toc, recipes_df, merged,
                   recipes_combined, splitter, row, docs>>

\* every batch was added: vectorstore is bound and the cell ends
IndexDone ==
    /\ pc = "add_texts"
    /\ batch = Len(batches)
    /\ pc' = "done"
    /\ UNCHANGED indexVars
    /\ UNCHANGED <<pdf, content_start_page, content_end_page, book_df,
                   doc_toc, recipes_toc, recipes_df, merged,
                   recipes_combined, splitter, row, docs, error>>

\* the notebook is run again from its first cell, on the same PDF, with the
\* same literals and the same persist_directory: the names are unbound, the
\* directory keeps what was written into it
RunAgain ==
    /\ pc \in {"done", "failed"}
    /\ run < MaxRuns
    /\ run' = run + 1
    /\ pc' = "extract_pages"
    /\ book_df' = <<>>
    /\ doc_toc' = [dtype |-> "object", rows |-> <<>>]
    /\ recipes_toc' = [dtype |-> "object", rows |-> <<>>]
    /\ recipes_df' = <<>>
    /\ merged' = <<>>
    /\ recipes_combined' = <<>>
    /\ row' = 0
    /\ docs' = <<>>
    /\ error' = "none"
    /\ ids' = <<>>
    /\ batches' = <<>>
    /\ batch' = 0
    /\ UNCHANGED <<pdf, content_start_page, content_end_page, splitter,
                   store, uuid_count>>

NextIndex ==
    \/ Next
    \/ FromDocuments
    \/ AddTexts
    \/ IndexDone
    \/ RunAgain

\* the whole notebook, index cell included, run up to MaxRuns times
SpecIndex == InitIndex /\ [][NextIndex]_vars

----------------------------------------------------------------------------
(* Vocabulary of the properties, read off the inputs and the outputs. *)

\* the merge cell has run and produced recipes_combined
Assigned == pc \in {"split", "split_rows", "build_index"}

PageNumbers == 1..Len(pdf.pages)

InRange(p) == content_start_page <= p /\ p <= content_end_page

\* the recipe-level entries of the outline
Boundaries == {pdf.toc[i] : i \in {j \in DOMAIN pdf.toc :
                                      pdf.toc[j].level = recipe_level}}

\* some boundary starts at or before page p
HasBoundary(p) == \E b \in Boundaries : b.page_number <= p

\* the titles of the boundaries nearest before page p: those with the
\* greatest start page that is <= p (several when boundaries share it)
NearestTitles(p) ==
    {b.title : b \in {c \in Boundaries :
                        /\ c.page_number <= p
                        /\ \A e \in Boundaries :
                              e.page_number <= p
                                  => e.page_number <= c.page_number}}

\* the title the merge gave page p, NaN when it has none or no row
TitleOf(p) ==
    IF \E i \in DOMAIN merged : merged[i].page_number = p
    THEN merged[CHOOSE i \in DOMAIN merged : merged[i].page_number = p].title
    ELSE NaN

\* the pages that make up the recipe titled t
PagesOf(t) == {p \in PageNumbers : TitleOf(p) = t}

\* the rows of recipes_combined page p belongs to
RecipesOfPage(p) ==
    {k \in DOMAIN recipes_combined : p \in PagesOf(recipes_combined[k].recipe)}

RECURSIVE Ascending(_)
\* the elements of a set of numbers as an ascending sequence
Ascending(S) ==
    IF S = {} THEN <<>>
    ELSE LET m == CHOOSE x \in S : \A y \in S : x <= y
         IN  <<m>> \o Ascending(S \ {m})

\* the texts of the pages of P in ascending page order, as the PDF has them
TextsOf(P) == LET a == Ascending(P) IN [i \in 1..Len(a) |-> pdf.pages[a[i]]]

RECURSIVE SumLen(_)
SumLen(texts) ==
    IF texts = <<>> THEN 0 ELSE Len(Head(texts)) + SumLen(Tail(texts))

\* the description of row k is the single-space join of the pages of P
IsJoinOf(k, P) == recipes_combined[k].description = Join(<<SP>>, TextsOf(P))

----------------------------------------------------------------------------
(* C1 *)

\* C1 as stated: after assignment every page in the content range belongs
\* to exactly one Recipe and every page outside the range to none.
C1_AllInRangeAssigned ==
    Assigned =>
        \A p \in PageNumbers :
            Cardinality(RecipesOfPage(p)) = IF InRange(p) THEN 1 ELSE 0

\* C1 amended: after assignment a page belongs to exactly one Recipe when
\* it lies in the content range and some boundary starts at or before it,
\* and to no Recipe otherwise (outside the range, or before every
\* boundary); each description holds exactly the characters of its pages
\* and one separator between two pages, so no page text is dropped or
\* taken twice.
C1_InRangeAssignedOnce ==
    Assigned =>
        /\ \A p \in PageNumbers :
              Cardinality(RecipesOfPage(p)) =
                  IF InRange(p) /\ HasBoundary(p) THEN 1 ELSE 0
        /\ \A k \in DOMAIN recipes_combined :
              LET P == PagesOf(recipes_combined[k].recipe)
              IN  /\ P # {}
                  /\ Len(recipes_combined[k].description)
                        = SumLen(TextsOf(P)) + Cardinality(P) - 1

\* C1 witness: an assignment that produced a Recipe, with a page outside
\* the range and a page in the range that precedes every boundary
C1_Witness ==
    /\ Assigned
    /\ recipes_combined # <<>>
    /\ \E p \in PageNumbers : ~InRange(p)
    /\ \E p \in PageNumbers : InRange(p) /\ ~HasBoundary(p)
    /\ \E p \in PageNumbers : InRange(p) /\ HasBoundary(p)

----------------------------------------------------------------------------
(* C2 *)

\* C2: after assignment every page of the range carries the title of a
\* boundary nearest before it (none when no boundary precedes it), the
\* Recipes are exactly the titles so carried, and each description is the
\* single-space join, in ascending page order, of the texts of the pages
\* that carry its title.
C2_DescriptionIsNearestPrecedingJoin ==
    Assigned =>
        /\ \A p \in PageNumbers :
              IF InRange(p) /\ HasBoundary(p)
              THEN TitleOf(p) \in NearestTitles(p)
              ELSE TitleOf(p) = NaN
        /\ {recipes_combined[k].recipe : k \in DOMAIN recipes_combined}
              = {TitleOf(p) : p \in PageNumbers} \ {NaN}
        /\ \A k \in DOMAIN recipes_combined :
              IsJoinOf(k, {p \in PageNumbers :
                              /\ InRange(p)
                              /\ TitleOf(p) = recipes_combined[k].recipe})

\* C2 witness: boundaries A at page 1 and B at page 3 and nothing else at
\* recipe level, all pages in range and non-empty: A is built from pages 1
\* and 2 only and B from page 3 only
C2_Witness ==
    /\ Assigned
    /\ Boundaries = {[level |-> recipe_level, title |-> "A", page_number |-> 1],
                     [level |-> recipe_level, title |-> "B", page_number |-> 3]}
    /\ content_start_page = 1 /\ content_end_page = 3
    /\ pdf.pages = << <<"a">>, <<"b">>, <<"a">> >>
    /\ recipes_combined = <<[recipe |-> "A", description |-> <<"a", SP, "b">>],
                            [recipe |-> "B", description |-> <<"a">>]>>

----------------------------------------------------------------------------
(* C3 *)

\* t is the title of two boundaries that start at different pages
TitleRepeats(t) ==
    \E b, c \in Boundaries :
        b.title = t /\ c.title = t /\ b.page_number # c.page_number

\* C3: no two Recipes have the same title, and a title that two boundaries
\* at different start pages bear has one Recipe whose description joins, in
\* ascending page order, the texts of all the pages of the range whose
\* nearest preceding boundary bears it (the pages of both spans).
C3_SameTitleMerged ==
    Assigned =>
        /\ \A j, k \in DOMAIN recipes_combined :
              recipes_combined[j].recipe = recipes_combined[k].recipe => j = k
        /\ \A t \in Titles :
              LET P == {p \in PageNumbers : InRange(p) /\ NearestTitles(p) = {t}}
              IN  (/\ TitleRepeats(t)
                   /\ P # {}
                   /\ \A p \in PageNumbers :
                         InRange(p) /\ t \in NearestTitles(p) => p \in P)
                  => \E k \in DOMAIN recipes_combined :
                        /\ recipes_combined[k].recipe = t
                        /\ IsJoinOf(k, P)

\* C3 witness: the outline A, B, A at pages 1, 2, 3: one Recipe A made of
\* pages 1 and 3, in that order, and one Recipe B
C3_Witness ==
    /\ Assigned
    /\ pdf.toc = <<[level |-> recipe_level, title |-> "A", page_number |-> 1],
                   [level |-> recipe_level, title |-> "B", page_number |-> 2],
                   [level |-> recipe_level, title |-> "A", page_number |-> 3]>>
    /\ content_start_page = 1 /\ content_end_page = 3
    /\ pdf.pages = << <<"a">>, <<"a">>, <<"b">> >>
    /\ recipes_combined = <<[recipe |-> "A", description |-> <<"a", SP, "b">>],
                            [recipe |-> "B", description |-> <<"a">>]>>

----------------------------------------------------------------------------
(* C4 *)

\* C4: when the outline has a boundary, the merge cell raises no error, and
\* after assignment a page of the range that precedes every boundary has no
\* title, belongs to no Recipe, and no description is built from it.
C4_PageBeforeFirstBoundaryDropped ==
    /\ Boundaries # {} => pc # "failed" /\ error = "none"
    /\ Assigned =>
          \A p \in PageNumbers :
              InRange(p) /\ ~HasBoundary(p) =>
                  /\ TitleOf(p) = NaN
                  /\ RecipesOfPage(p) = {}
                  /\ \A k \in DOMAIN recipes_combined :
                        /\ recipes_combined[k].recipe # NaN
                        /\ IsJoinOf(k, PagesOf(recipes_combined[k].recipe)
                                           \ {p})

\* C4 witness: page 1 is in range with non-empty text, the first boundary
\* starts at page 2, and the assignment produced a Recipe
C4_Witness ==
    /\ Assigned
    /\ content_start_page = 1
    /\ pdf.pages[1] # <<>>
    /\ Boundaries # {}
    /\ ~HasBoundary(1)
    /\ InRange(2) /\ HasBoundary(2)
    /\ recipes_combined # <<>>

----------------------------------------------------------------------------
(* C5 *)

\* the first page of the recipe titled t
FirstPage(t) == CHOOSE p \in PagesOf(t) : \A q \in PagesOf(t) : p <= q

----------------------------------------------------------------------------
(* Vocabulary of the properties of the split loop. *)

\* the split loop has run to its end
SplitFinished == pc = "build_index"

\* the contents of the Fragments tagged with title t, in the order of docs
FragmentsOf(t) ==
    LET ds == SelectSeq(docs, LAMBDA d : d.metadata.recipe = t)
    IN  [i \in 1..Len(ds) |-> ds[i].page_content]

\* the characters i..j of text are all whitespace (true of an empty range)
AllWhitespace(text, i, j) == \A n \in i..j : text[n] \in Whitespace

\* text without the last n characters
DropLast(text, n) ==
    IF n >= Len(text) THEN <<>> ELSE SubSeq(text, 1, Len(text) - n)

\* text without its whitespace characters
Squeeze(text) == SelectSeq(text, LAMBDA c : c \notin Whitespace)

----------------------------------------------------------------------------
(* C6 *)

\* C6: every Fragment the split loop has produced has at least one
\* character and at most chunk_size characters.
C6_FragmentsBoundedNonEmpty ==
    pc \in {"split_rows", "build_index"} =>
        \A i \in DOMAIN docs :
            /\ Len(docs[i].page_content) >= 1
            /\ Len(docs[i].page_content) <= splitter.chunk_size

\* C6 witness: a description longer than chunk_size was split into more
\* than one Fragment, with a positive overlap configured
C6_Witness ==
    /\ SplitFinished
    /\ Len(recipes_combined) = 1
    /\ Len(recipes_combined[1].description) > splitter.chunk_size
    /\ splitter.chunk_overlap > 0
    /\ Len(docs) > 1

----------------------------------------------------------------------------
(* C7 *)

\* C7 as stated: a description no longer than chunk_size yields exactly one
\* Fragment, equal to the description.
C7_ShortYieldsDescription ==
    SplitFinished =>
        \A k \in DOMAIN recipes_combined :
            Len(recipes_combined[k].description) <= splitter.chunk_size =>
                FragmentsOf(recipes_combined[k].recipe)
                    = <<recipes_combined[k].description>>

\* C7 amended: a description no longer than chunk_size yields at most one
\* Fragment; when it has a character that is not whitespace it yields
\* exactly one, equal to the description without its leading and trailing
\* whitespace, hence to the description itself when it neither starts nor
\* ends with whitespace.
C7_ShortYieldsStrippedDescription ==
    SplitFinished =>
        \A k \in DOMAIN recipes_combined :
            LET d == recipes_combined[k].description
                f == FragmentsOf(recipes_combined[k].recipe)
            IN  Len(d) <= splitter.chunk_size =>
                    /\ Len(f) <= 1
                    /\ Squeeze(d) # <<>> =>
                          /\ Len(f) = 1
                          /\ f[1] = SubSeq(d,
                                CHOOSE i \in 1..Len(d) :
                                    /\ d[i] \notin Whitespace
                                    /\ AllWhitespace(d, 1, i - 1),
                                CHOOSE j \in 1..Len(d) :
                                    /\ d[j] \notin Whitespace
                                    /\ AllWhitespace(d, j + 1, Len(d)))

\* C7 witness: a description of exactly chunk_size characters that starts
\* with whitespace came out as one shorter Fragment
C7_Witness ==
    /\ SplitFinished
    /\ Len(recipes_combined) = 1
    /\ Len(recipes_combined[1].description) = splitter.chunk_size
    /\ recipes_combined[1].description[1] \in Whitespace
    /\ Len(docs) = 1
    /\ Len(docs[1].page_content) < splitter.chunk_size

----------------------------------------------------------------------------
(* C8 *)

RECURSIVE RebuildFixed(_, _)
\* the Fragments concatenated in order, each but the last without its last
\* n characters
RebuildFixed(frags, n) ==
    IF frags = <<>> THEN <<>>
    ELSE IF Len(frags) = 1 THEN frags[1]
    ELSE DropLast(frags[1], n) \o RebuildFixed(Tail(frags), n)

\* C8 as stated: for a description longer than chunk_size, the Fragments
\* concatenated in order, each non-final one without its last chunk_overlap
\* characters, give back the description up to whitespace.
C8_FixedOverlapRebuilds ==
    SplitFinished =>
        \A k \in DOMAIN recipes_combined :
            LET d == recipes_combined[k].description
            IN  Len(d) > splitter.chunk_size =>
                    Squeeze(RebuildFixed(FragmentsOf(recipes_combined[k].recipe),
                                         splitter.chunk_overlap))
                        = Squeeze(d)

\* frag is the piece of d that starts at position o
FragmentAt(d, frag, o) ==
    /\ o + Len(frag) - 1 <= Len(d)
    /\ SubSeq(d, o, o + Len(frag) - 1) = frag

RECURSIVE Placements(_, _, _, _)
\* the positions in d at which Fragment n of frags can start when the
\* Fragments 1..n are laid over d in order: the first after nothing but
\* whitespace, each next one starting and ending no earlier than its
\* predecessor, sharing at most co characters with it and leaving nothing
\* but whitespace between them
Placements(d, frags, n, co) ==
    IF n = 1
    THEN {o \in 1..Len(d) : /\ FragmentAt(d, frags[1], o)
                            /\ AllWhitespace(d, 1, o - 1)}
    ELSE LET before == Placements(d, frags, n - 1, co)
         IN  {o \in 1..Len(d) :
                /\ FragmentAt(d, frags[n], o)
                /\ \E q \in before :
                      LET e == q + Len(frags[n - 1]) - 1
                      IN  /\ q <= o
                          /\ e <= o + Len(frags[n]) - 1
                          /\ e - o + 1 <= co
                          /\ AllWhitespace(d, e + 1, o - 1)}

\* the Fragments lie over d in order, overlapping by at most co characters,
\* and cover every character of d that is not whitespace
Covers(d, frags, co) ==
    IF frags = <<>> THEN AllWhitespace(d, 1, Len(d))
    ELSE \E o \in Placements(d, frags, Len(frags), co) :
            AllWhitespace(d, o + Len(frags[Len(frags)]), Len(d))

\* C8 amended: for a description longer than chunk_size, the Fragments are
\* pieces of the description, each starting and ending no earlier than the
\* one before it, two consecutive
\* Fragments share at most chunk_overlap characters (as many whole pieces
\* as fit, possibly none), and every character of the description that
\* lies in no Fragment is whitespace: concatenating the Fragments with the
\* characters each one shares with its successor removed gives back the
\* description up to whitespace at the split points and at the ends.
C8_ActualOverlapRebuilds ==
    SplitFinished =>
        \A k \in DOMAIN recipes_combined :
            LET d == recipes_combined[k].description
            IN  Len(d) > splitter.chunk_size =>
                    Covers(d, FragmentsOf(recipes_combined[k].recipe),
                           splitter.chunk_overlap)

\* C8 witness: a description longer than chunk_size, split at a space with
\* chunk_overlap 1, whose two Fragments share no character
C8_Witness ==
    /\ SplitFinished
    /\ recipes_combined
          = <<[recipe |-> "A", description |-> <<"a", "b", SP, "a", "b">>]>>
    /\ splitter = [chunk_size |-> 3, chunk_overlap |-> 1]
    /\ FragmentsOf("A") = << <<"a", "b">>, <<"a", "b">> >>

----------------------------------------------------------------------------
(* C9 *)

RECURSIVE ExpectedDocs(_)
\* the Fragments of the first n Recipes, Recipe by Recipe, each Recipe's in
\* split order and tagged with its title
ExpectedDocs(n) ==
    IF n = 0 THEN <<>>
    ELSE LET r == recipes_combined[n]
             chunks == SplitText(splitter, r.description)
         IN  ExpectedDocs(n - 1)
             \o [i \in 1..Len(chunks) |->
                    [page_content |-> chunks[i],
                     metadata |-> [recipe |-> r.recipe]]]

\* C9: while and after the split loop runs, docs holds, for the Recipes
\* handled so far in Recipe order, the chunks of each Recipe's description
\* in split order, each tagged with that Recipe's title; so every Fragment
\* tagged t is a chunk of the description of the Recipe titled t.
C9_FragmentsTaggedWithSource ==
    pc \in {"split_rows", "build_index"} =>
        /\ docs = ExpectedDocs(row)
        /\ \A i \in DOMAIN docs :
              \E k \in 1..row :
                  /\ recipes_combined[k].recipe = docs[i].metadata.recipe
                  /\ LET chunks == SplitText(splitter,
                                            recipes_combined[k].description)
                     IN  \E j \in DOMAIN chunks :
                            chunks[j] = docs[i].page_content

\* C9 witness: two Recipes with different descriptions, the first split
\* into two Fragments, all three Fragments emitted and tagged
C9_Witness ==
    /\ SplitFinished
    /\ Len(recipes_combined) = 2
    /\ recipes_combined[1].description # recipes_combined[2].description
    /\ Len(docs) = 3
    /\ docs[1].metadata.recipe = recipes_combined[1].recipe
    /\ docs[2].metadata.recipe = recipes_combined[1].recipe
    /\ docs[3].metadata.recipe = recipes_combined[2].recipe

----------------------------------------------------------------------------
(* C10 *)

\* C10: when the outline has no entry at the recipe level, the filter on
\* level leaves no boundary, the merge cell raises no error, and it leaves
\* no Recipe.
C10_NoBoundariesNoRecipes ==
    Boundaries = {} =>
        /\ pc \notin {"extract_pages", "extract_toc", "filter_toc"}
              => recipes_toc.rows = <<>>
        /\ pc # "failed" /\ error = "none"
        /\ Assigned => recipes_combined = <<>>

----------------------------------------------------------------------------
(* C11 *)

\* the cells before the merge cell has produced anything, and the failed run
BeforeAssignment ==
    pc \in {"extract_pages", "extract_toc", "filter_toc", "filter_pages",
            "merge", "failed"}

\* C11: when the PDF has no outline at all, the run ends with an error at
\* the merge cell at the latest: no page is assigned, no Recipe and no
\* Fragment is produced, and nothing is written to the vector store.
C11_NoOutlineFailsFast ==
    pdf.toc = <<>> =>
        /\ BeforeAssignment
        /\ merged = <<>> /\ recipes_combined = <<>> /\ docs = <<>>
        /\ store = {} /\ ids = <<>>
        /\ pc = "failed" <=> error # "none"
        /\ pc = "merge" => recipes_toc.dtype = "object"

\* C11 witness: a run on a PDF without outline, all pages readable, has
\* failed in the merge cell
C11_Witness ==
    /\ pdf.toc = <<>>
    /\ pdf.unreadable = {}
    /\ pc = "failed"
    /\ error = "MergeError"
    /\ book_df # <<>>

----------------------------------------------------------------------------
(* C12 *)

\* the entries the current run has written
OwnEntries == {e \in store : \E i \in DOMAIN ids : e.id = ids[i]}

\* C12: every entry of the store carries the vector of its own content; an
\* entry written for Fragment i carries the content and the metadata
\* {recipe: title} of Fragment i, a Fragment of the Recipe of that title;
\* no two entries share an id; and when the index cell has ended without
\* error the run has written exactly one entry per Fragment.
C12_EntriesAreUnits ==
    /\ \A e \in store : e.embedding = Embed(e.document)
    /\ \A e \in store : \A i \in DOMAIN ids :
          e.id = ids[i] =>
             /\ e.document = docs[i].page_content
             /\ e.metadata = docs[i].metadata
             /\ \E k \in DOMAIN recipes_combined :
                   /\ e.metadata = [recipe |-> recipes_combined[k].recipe]
                   /\ LET chunks == SplitText(splitter,
                                       recipes_combined[k].description)
                      IN  \E j \in DOMAIN chunks : chunks[j] = e.document
    /\ \A e1, e2 \in store : e1.id = e2.id => e1 = e2
    /\ pc = "done" =>
          /\ \A i \in DOMAIN docs : \E e \in store : e.id = ids[i]
          /\ Cardinality(OwnEntries) = Len(docs)

\* C12 witness: a first run has indexed, in more than one batch, Fragments
\* of two Recipes whose contents have different vectors
C12_Witness ==
    /\ pc = "done"
    /\ run = 1
    /\ Len(batches) > 1
    /\ Cardinality(store) = Len(docs)
    /\ \E e1, e2 \in store :
          /\ e1.embedding # e2.embedding
          /\ e1.metadata # e2.metadata

----------------------------------------------------------------------------
(* C13 *)

\* C13: a run that has failed has recorded its error, and the persisted
\* store holds no entry written by that run: a failed run leaves no part of
\* its index behind.
C13_FailureLeavesNoPartialIndex ==
    pc = "failed" =>
        /\ error # "none"
        /\ OwnEntries = {}

----------------------------------------------------------------------------
(* C14 *)

\* C14: once the extraction cell has run, book_df has one row per page of
\* the PDF, numbered 1..N in order, each with its text as a string; a page
\* on which extraction fails has the empty string, and the run has not
\* been aborted by the extraction.
C14_ExtractionIsTotal ==
    pc # "extract_pages" =>
        /\ error # "ExtractError"
        /\ pc # "failed" =>
              /\ Len(book_df) = Len(pdf.pages)
              /\ \A i \in DOMAIN book_df :
                    /\ book_df[i].page_number = i
                    /\ book_df[i].text =
                          IF i \in pdf.unreadable THEN <<>> ELSE pdf.pages[i]

----------------------------------------------------------------------------
(* C15 *)

\* the rows of df sorted by page_number with tied rows left in their order
RECURSIVE StableInsert(_, _)
StableInsert(sorted, r) ==
    IF sorted = <<>> THEN <<r>>
    ELSE IF Head(sorted).page_number <= r.page_number
         THEN <<Head(sorted)>> \o StableInsert(Tail(sorted), r)
         ELSE <<r>> \o sorted

RECURSIVE StableSort(_)
StableSort(df) ==
    IF df = <<>> THEN <<>>
    ELSE StableInsert(StableSort(SubSeq(df, 1, Len(df) - 1)), df[Len(df)])

\* the recipe-level entries of the outline, in outline order
OutlineBoundaries ==
    SelectSeq(pdf.toc, LAMBDA e : e.level = recipe_level)

\* the title of the boundary that is last in outline order among those with
\* the greatest start page that is <= p
LastTiedTitle(p) ==
    LET near == {j \in DOMAIN OutlineBoundaries :
                    /\ OutlineBoundaries[j].page_number <= p
                    /\ \A k \in DOMAIN OutlineBoundaries :
                          OutlineBoundaries[k].page_number <= p =>
                             OutlineBoundaries[k].page_number
                                <= OutlineBoundaries[j].page_number}
    IN  OutlineBoundaries[CHOOSE j \in near : \A k \in near : k <= j].title

\* C15: after the merge cell the boundaries are sorted by start page with
\* those that share a start page still in outline order, and every in-range
\* page at or after a boundary has the title of the boundary that is last
\* in outline order among the nearest ones.
C15_TiesKeepOutlineOrder ==
    Assigned =>
        /\ recipes_toc.rows = StableSort(OutlineBoundaries)
        /\ \A p \in PageNumbers :
              InRange(p) /\ HasBoundary(p) => TitleOf(p) = LastTiedTitle(p)

----------------------------------------------------------------------------
(* C16 *)

\* the separator list of the stated order: paragraph break, line break,
\* sentence-ending punctuation and a space, space, character cut
SentenceSeparators == << <<NL, NL>>, <<NL>>, <<".", SP>>, <<SP>>, <<>> >>

\* the contents of docs, in order
Contents == [i \in DOMAIN docs |-> docs[i].page_content]

\* the words of a text: its maximal runs without whitespace
Words(text) ==
    {SubSeq(text, i, j) : <<i, j>> \in
        {ij \in (1..Len(text)) \X (1..Len(text)) :
            /\ ij[1] <= ij[2]
            /\ \A k \in ij[1]..ij[2] : text[k] \notin Whitespace
            /\ ij[1] = 1 \/ text[ij[1] - 1] \in Whitespace
            /\ ij[2] = Len(text) \/ text[ij[2] + 1] \in Whitespace}}

\* the first line of a text: what comes before its first line break
FirstLine(text) ==
    IF Contains(text, <<NL>>)
    THEN SubSeq(text, 1, FindFrom(text, <<NL>>, 1) - 1)
    ELSE text

IsPrefix(s, t) == Len(s) <= Len(t) /\ SubSeq(t, 1, Len(s)) = s

\* C16 as stated: the Fragments of a description are those of recursive
\* splitting with the separators paragraph break, line break, sentence
\* punctuation and space, space, character cut, in that order.
C16_SentenceSeparatorOrder ==
    SplitFinished /\ Len(recipes_combined) = 1 =>
        Contents = SplitTextRec(recipes_combined[1].description,
                                SentenceSeparators,
                                splitter.chunk_size, splitter.chunk_overlap)

\* C16: the Fragments of a description are those of recursive splitting
\* with the separators paragraph break, line break, space, character cut,
\* in that order, with no sentence-punctuation level; a word is cut only
\* when some word is not shorter than max_length, and a first line that
\* fits max_length is not split at its spaces when a line break follows it.
C16_SeparatorOrder ==
    SplitFinished /\ Len(recipes_combined) = 1 =>
        LET d  == recipes_combined[1].description
            cs == splitter.chunk_size
            co == splitter.chunk_overlap
        IN  /\ Contents = SplitTextRec(d, << <<NL, NL>>, <<NL>>, <<SP>>, <<>> >>,
                                       cs, co)
            /\ (\A w \in Words(d) : Len(w) < cs) =>
                  \A i \in DOMAIN docs : Words(Contents[i]) \subseteq Words(d)
            /\ /\ Contains(d, <<NL>>)
               /\ Len(FirstLine(d)) <= cs
               /\ Strip(FirstLine(d)) # <<>>
               => /\ docs # <<>>
                  /\ \/ Contents[1] = Strip(FirstLine(d))
                     \/ IsPrefix(LStrip(FirstLine(d)), Contents[1])

\* C16 witness: a description with a sentence end, a space and a line
\* break, longer than max_length, has been split into several Fragments
C16_Witness ==
    /\ SplitFinished
    /\ Len(recipes_combined) = 1
    /\ Contains(recipes_combined[1].description, <<".", SP>>)
    /\ Contains(recipes_combined[1].description, <<NL>>)
    /\ Len(recipes_combined[1].description) > splitter.chunk_size
    /\ splitter.chunk_size = MaxChunk
    /\ Len(docs) > 1
    /\ \E i \in DOMAIN docs : Contains(docs[i].page_content, <<SP>>)

----------------------------------------------------------------------------
(* C17 *)

\* the runs before the current one wrote an entry for every id they drew
EarlierRunsComplete ==
    \A k \in 1..(uuid_count - Len(ids)) : \E e \in store : e.id = k

\* C17: when the notebook has run to its end a second time against the
\* directory a complete first run wrote, the store holds each Fragment
\* exactly once: as many entries with a given content and metadata as docs
\* has Fragments with them, and no more entries than Fragments.
C17_SecondRunLeavesSameEntries ==
    pc = "done" /\ run > 1 /\ EarlierRunsComplete =>
        /\ Cardinality(store) = Len(docs)
        /\ \A i \in DOMAIN docs :
              Cardinality({e \in store :
                              /\ e.document = docs[i].page_content
                              /\ e.metadata = docs[i].metadata})
                 = Cardinality({j \in DOMAIN docs : docs[j] = docs[i]})

=============================================================================
